---- MODULE Spec2Model ----
(***************************************************************************)
(* Client state machine of the ChatWithDocs component                      *)
(* (src/src/components/ChatWithDocs.tsx): the document list, the selection *)
(* set, the transcript and the requests the component has in flight        *)
(* against the retrieval backend.  Every handler of the component is one   *)
(* action; every network request is split into the steps at which the      *)
(* single-threaded event loop can interleave other handlers.               *)
(*                                                                         *)
(* The handlers are modelled as the functions they are: a handler can be   *)
(* called in any state in which its argument exists.  The disabled         *)
(* attributes of the rendered controls (lines 289, 331, 341, 512, 518) are *)
(* not part of the handlers.  Message.id (Date.now()) and the size and     *)
(* type of a file are left out: no handler reads them.  SpecUI is the      *)
(* component driven through its rendered controls, with those attributes   *)
(* as guards.                                                              *)
(***************************************************************************)
EXTENDS Naturals, Sequences, FiniteSets

\* ------------------------------------------------------------------ bounds
MaxUploads == 2      \* upload batches (calls of onDrop) in one behaviour
MaxAsks    == 1      \* calls of sendMessage in one behaviour
MaxDeletes == 1      \* calls of deleteDocument in one behaviour
MaxOps     == 2      \* calls of the three together in one behaviour

\* The same bounds for the behaviours in which the handlers are called through
\* the rendered controls only (SpecUI).
UiMaxUploads == 1
UiMaxAsks    == 2
UiMaxDeletes == 1
UiMaxOps     == 3

\* ------------------------------------------------------------------ inputs
\* The files the user can drop, by name.
Files == {"a.pdf", "b.txt"}

\* A value a JavaScript optional field has when it is absent.
Undef == "undefined"

\* What the user types into the question box, as sequences of characters: a
\* blank text and a question.
Texts == { <<" ">>, <<" ", "q">> }

\* acceptedFiles of one drop: no file, one file, or two files.
Batches == { <<>>, <<"a.pdf">>, <<"a.pdf", "b.txt">> }

\* ------------------------------------------------------------- the backend
\* The identifier the backend assigns to an uploaded file
\* (response.data.filename of POST /upload; doc_id or id of a listed document).
ServerId(f) == IF f = "a.pdf" THEN "d1" ELSE "d2"

\* The file an identifier was assigned to.
FileOf(d) == IF d = "d1" THEN "a.pdf" ELSE "b.txt"

\* The order in which the backend lists documents.
ServerOrder == << "d1", "d2" >>

\* The field under which a listing names its documents: doc_id, or neither
\* doc_id nor id ("none"); the upload response names them under id, see
\* OptimisticDoc.
ListShapes == { "doc_id", "none" }

VARIABLES
  messages,            \* useState<Message[]>: the transcript
  inputMessage,        \* useState(''): the text of the question box
  isLoading,           \* useState(false)
  uploadedDocuments,   \* useState<Document[]>: the document list
  isUploading,         \* useState(false)
  selectedDocuments,   \* useState<string[]>: the selection
  serverDocs,          \* backend: identifiers stored under this userId
  batches,             \* one record per call of onDrop, in call order
  lists,               \* GET /upload/documents requests, by origin (0 = mount)
  queries,             \* one record per POST /query, in call order
  deletes,             \* one state per DELETE request, in call order
  asked,               \* calls of sendMessage so far
  lastOp               \* history: "selectAll" after selectAllDocuments,
                       \* "selectAll,deselectAll" when deselectAllDocuments
                       \* followed it directly, "other" after anything else

vars == << messages, inputMessage, isLoading, uploadedDocuments, isUploading,
           selectedDocuments, serverDocs, batches, lists, queries, deletes,
           asked, lastOp >>

client == << messages, inputMessage, isLoading, uploadedDocuments, isUploading,
             selectedDocuments >>

\* ------------------------------------------------------------------ helpers
RECURSIVE MapDocId(_)
RECURSIVE TrimStart(_)
RECURSIVE TrimEnd(_)

\* JavaScript truthiness of an optional string.
Truthy(s) == s # Undef /\ s # ""

\* doc.doc_id || doc.id
DocId(doc) == IF Truthy(doc.doc_id) THEN doc.doc_id ELSE doc.id

\* uploadedDocuments.map(doc => doc.doc_id || doc.id)
MapDocId(docs) ==
  IF docs = <<>> THEN <<>> ELSE << DocId(Head(docs)) >> \o MapDocId(Tail(docs))

\* The elements of a sequence.
Range(s) == { s[i] : i \in DOMAIN s }

\* prev.includes(x)
Includes(s, x) == x \in Range(s)

\* prev.filter(id => id !== docId)
Without(s, x) == SelectSeq(s, LAMBDA e : e # x)

IsSpace(c) == c = " "

\* String.prototype.trim
TrimStart(t) == IF t # <<>> /\ IsSpace(Head(t)) THEN TrimStart(Tail(t)) ELSE t
TrimEnd(t) ==
  IF t # <<>> /\ IsSpace(t[Len(t)]) THEN TrimEnd(SubSeq(t, 1, Len(t) - 1)) ELSE t
Trim(t) == TrimEnd(TrimStart(t))

\* One transcript entry.  kind stands for the fixed text of the entry; text,
\* files and sources carry what the entry interpolates; q is the query the
\* entry belongs to (0: none).
Msg(type, kind, text, files, sources, q) ==
  [ type |-> type, kind |-> kind, text |-> text, files |-> files,
    sources |-> sources, q |-> q ]

SystemMsg(kind) == Msg("system", kind, <<>>, <<>>, <<>>, 0)

\* The record onDrop builds for one uploaded file from the upload response.
OptimisticDoc(f) ==
  [ id |-> ServerId(f), doc_id |-> Undef, name |-> f, filename |-> Undef,
    status |-> "processing" ]

\* A document of a listing, under the field name the listing uses.
ListedDoc(d, shape) ==
  [ id |-> IF shape = "id" THEN d ELSE Undef,
    doc_id |-> IF shape = "doc_id" THEN d ELSE Undef,
    name |-> Undef, filename |-> FileOf(d), status |-> "ready" ]

\* response.data.documents of a listing of the stored documents
Listing(stored, shape) ==
  LET ids == SelectSeq(ServerOrder, LAMBDA d : d \in stored)
  IN  [ i \in 1..Len(ids) |-> ListedDoc(ids[i], shape) ]

\* Calls of onDrop, sendMessage and deleteDocument so far.
Ops == Len(batches) + asked + Len(deletes)

\* --------------------------------------------------------------------- Init
\* The state after the first render and its mount effect (useEffect, lines
\* 57-59): every useState at its initial value, and the listing request of the
\* mount effect sent.
NoList == [ st |-> "idle", docs |-> <<>> ]

Init ==
  /\ messages = <<>>
  /\ inputMessage = <<>>
  /\ isLoading = FALSE
  /\ uploadedDocuments = <<>>
  /\ isUploading = FALSE
  /\ selectedDocuments = <<>>
  /\ serverDocs = {}
  /\ batches = <<>>
  /\ lists = [ o \in 0..MaxUploads |-> IF o = 0 THEN [ NoList EXCEPT !.st = "sent" ]
                                                ELSE NoList ]
  /\ queries = <<>>
  /\ deletes = <<>>
  /\ asked = 0
  /\ lastOp = "other"

\* ------------------------------------------------------- loadUserDocuments
\* The backend answers a listing request with the documents it stores at that
\* moment; the response is then on its way to the client.
Served(ls, o, stored, shape) ==
  [ ls EXCEPT ![o] = [ st |-> "answered", docs |-> Listing(stored, shape) ] ]

\* The timer onDrop set for batch b fires and calls loadUserDocuments (line
\* 103), which sends its GET request (line 63).  Sending changes nothing on the
\* client and the timer may fire at any later moment, so the step is taken at
\* the moment the backend serves the request.
TimerFire(b, shape) ==
  /\ b \in DOMAIN batches
  /\ batches[b].fired < batches[b].scheduled
  /\ batches' = [ batches EXCEPT ![b].fired = @ + 1 ]
  /\ lists' = Served(lists, b, serverDocs, shape)
  /\ UNCHANGED << client, serverDocs, queries, deletes, asked >>
  /\ lastOp' = "other"

\* The backend serves the listing request of the mount effect.
ListServe(o, shape) ==
  /\ lists[o].st = "sent"
  /\ lists' = Served(lists, o, serverDocs, shape)
  /\ UNCHANGED << client, serverDocs, batches, queries, deletes, asked >>
  /\ lastOp' = "other"

\* A faulty refresh: the listing is merged into the list instead of replacing
\* it.
LoadResultMerged(prev, docs) == prev \o docs

\* setUploadedDocuments(response.data.documents || [])
LoadResult(prev, docs) == docs

\* The listing response of origin o arrives: loadUserDocuments resumes after
\* its await (line 64).
ListRespond(o) ==
  /\ lists[o].st = "answered"
  /\ uploadedDocuments' = LoadResult(uploadedDocuments, lists[o].docs)
  /\ lists' = [ lists EXCEPT ![o] = [ st |-> "done", docs |-> <<>> ] ]
  /\ UNCHANGED << messages, inputMessage, isLoading, isUploading,
                  selectedDocuments, serverDocs, batches, queries, deletes, asked >>
  /\ lastOp' = "other"

\* The listing request of origin o fails (before or after the backend served
\* it): the catch of loadUserDocuments logs and changes nothing (lines 65-67).
ListFail(o) ==
  /\ lists[o].st \in { "sent", "answered" }
  /\ lists' = [ lists EXCEPT ![o] = [ st |-> "failed", docs |-> <<>> ] ]
  /\ UNCHANGED << client, serverDocs, batches, queries, deletes, asked >>
  /\ lastOp' = "other"

\* ------------------------------------------------------------------ onDrop
\* newFiles: one record per file of the batch, in the batch's order.
NewFiles(fs) == [ i \in 1..Len(fs) |-> OptimisticDoc(fs[i]) ]

\* The success entry of a batch (lines 97-101): it names the batch's files.
UploadedMsg(fs) == Msg("system", "uploaded", <<>>, fs, <<>>, 0)

\* A faulty append: only the first file of the batch gets a record.
AppendDocsFirstOnly(prev, fs) ==
  prev \o [ i \in 1..(IF fs = <<>> THEN 0 ELSE 1) |-> OptimisticDoc(fs[i]) ]

\* setUploadedDocuments(prev => [...prev, ...newFiles])
AppendDocs(prev, fs) == prev \o NewFiles(fs)

\* A faulty success continuation: one entry per file instead of one per batch.
UploadedTranscriptPerFile(prev, fs) ==
  prev \o [ i \in 1..Len(fs) |-> Msg("system", "uploaded", <<>>, << fs[i] >>, <<>>, 0) ]

\* A faulty success continuation: the transcript is replaced by the new entry.
UploadedTranscriptReset(prev, fs) == << UploadedMsg(fs) >>

\* The transcript after the success continuation of a batch.
UploadedTranscript(prev, fs) == Append(prev, UploadedMsg(fs))

\* A faulty success continuation: two timers are set.
ScheduleRefreshTwice(n) == n + 2

\* The timers a batch has set after its success continuation (line 103).
ScheduleRefresh(n) == n + 1

\* A faulty catch: the files whose own request succeeded get their record.
FailedDocsKeepFulfilled(prev, fs, reqs) ==
  LET idx == SelectSeq([ i \in 1..Len(fs) |-> i ], LAMBDA i : reqs[i] = "ok")
  IN  prev \o [ k \in 1..Len(idx) |-> OptimisticDoc(fs[idx[k]]) ]

\* The document list after the catch of onDrop: the batch adds nothing.
FailedDocs(prev, fs, reqs) == prev

\* The delete requests that have succeeded so far.
FulfilledDeletes ==
  Cardinality({ d \in DOMAIN deletes : deletes[d] = "fulfilled" })

\* onDrop(acceptedFiles): isUploading is set and one upload request per file is
\* sent (lines 71-92).  With no file, Promise.all([]) is already fulfilled and
\* the success continuation runs before any other handler.  dels is history:
\* how many delete requests had succeeded when the batch was submitted.
onDrop(fs) ==
  /\ IF fs = <<>>
       THEN /\ batches' = Append(batches,
                 [ files |-> fs, reqs |-> <<>>, phase |-> "done",
                   scheduled |-> ScheduleRefresh(0), fired |-> 0,
                   dels |-> FulfilledDeletes ])
            /\ uploadedDocuments' = AppendDocs(uploadedDocuments, fs)
            /\ messages' = UploadedTranscript(messages, fs)
            /\ isUploading' = FALSE
       ELSE /\ batches' = Append(batches,
                 [ files |-> fs, reqs |-> [ i \in 1..Len(fs) |-> "pending" ],
                   phase |-> "pending", scheduled |-> 0, fired |-> 0,
                   dels |-> FulfilledDeletes ])
            /\ isUploading' = TRUE
            /\ UNCHANGED << uploadedDocuments, messages >>
  /\ UNCHANGED << inputMessage, isLoading, selectedDocuments, serverDocs,
                  lists, queries, deletes, asked >>
  /\ lastOp' = "other"

\* Promise.all(uploadPromises) is fulfilled once every request is.
AllFulfilled(reqs) == \A i \in DOMAIN reqs : reqs[i] = "ok"

\* Promise.all(uploadPromises) is rejected as soon as one request is.
AnyRejected(reqs) == \E i \in DOMAIN reqs : reqs[i] = "failed"

\* The upload request of file i of batch b settles.  A successful request has
\* stored the file on the backend.  If the settlement decides Promise.all, the
\* rest of onDrop runs in the same step: the success continuation (lines
\* 95-103) or the catch (lines 105-111), then the finally (line 113).
UploadSettle(b, i, ok) ==
  /\ b \in DOMAIN batches
  /\ i \in DOMAIN batches[b].reqs
  /\ batches[b].reqs[i] = "pending"
  /\ LET fs   == batches[b].files
         reqs == [ batches[b].reqs EXCEPT ![i] = IF ok THEN "ok" ELSE "failed" ]
     IN  /\ serverDocs' = IF ok THEN serverDocs \cup { ServerId(fs[i]) }
                                ELSE serverDocs
         /\ IF batches[b].phase # "pending"
              THEN /\ batches' = [ batches EXCEPT ![b].reqs = reqs ]
                   /\ UNCHANGED << uploadedDocuments, messages, isUploading >>
              ELSE IF AnyRejected(reqs)
              THEN /\ batches' = [ batches EXCEPT ![b].reqs = reqs,
                                                  ![b].phase = "failed" ]
                   /\ uploadedDocuments' = FailedDocs(uploadedDocuments, fs, reqs)
                   /\ messages' = Append(messages, SystemMsg("upload_error"))
                   /\ isUploading' = FALSE
              ELSE IF AllFulfilled(reqs)
              THEN /\ batches' = [ batches EXCEPT
                                     ![b].reqs = reqs,
                                     ![b].phase = "done",
                                     ![b].scheduled = ScheduleRefresh(@) ]
                   /\ uploadedDocuments' = AppendDocs(uploadedDocuments, fs)
                   /\ messages' = UploadedTranscript(messages, fs)
                   /\ isUploading' = FALSE
              ELSE /\ batches' = [ batches EXCEPT ![b].reqs = reqs ]
                   /\ UNCHANGED << uploadedDocuments, messages, isUploading >>
  /\ UNCHANGED << inputMessage, isLoading, selectedDocuments, lists, queries,
                  deletes, asked >>
  /\ lastOp' = "other"

\* ------------------------------------------------------------- sendMessage
\* top_k of every query request (line 162).
TopK == 5

\* Faulty precondition chains: the selection tested before the document list;
\* the selection not tested; the text not trimmed.
AskOutcomeSelectFirst(text, docs, sel) ==
  IF Trim(text) = <<>> THEN "ignore"
  ELSE IF Len(sel) = 0 THEN "none_selected"
  ELSE IF Len(docs) = 0 THEN "no_documents"
  ELSE "send"

AskOutcomeNoSelectCheck(text, docs, sel) ==
  IF Trim(text) = <<>> THEN "ignore"
  ELSE IF Len(docs) = 0 THEN "no_documents"
  ELSE "send"

AskOutcomeNoTrim(text, docs, sel) ==
  IF text = <<>> THEN "ignore"
  ELSE IF Len(docs) = 0 THEN "no_documents"
  ELSE IF Len(sel) = 0 THEN "none_selected"
  ELSE "send"

\* The preconditions of sendMessage, in the order the code tests them (lines
\* 123-141): what a call does with this text, document list and selection.
AskOutcome(text, docs, sel) ==
  IF Trim(text) = <<>> THEN "ignore"
  ELSE IF Len(docs) = 0 THEN "no_documents"
  ELSE IF Len(sel) = 0 THEN "none_selected"
  ELSE "send"

\* A faulty sendMessage: the question is not put into the transcript.
AskEntryNoUser(outcome, text, q) ==
  IF outcome = "no_documents" THEN << SystemMsg("please_upload") >>
  ELSE IF outcome = "none_selected" THEN << SystemMsg("please_select") >>
  ELSE <<>>

\* The entry a call of sendMessage appends before it returns or awaits.
AskEntry(outcome, text, q) ==
  IF outcome = "no_documents" THEN << SystemMsg("please_upload") >>
  ELSE IF outcome = "none_selected" THEN << SystemMsg("please_select") >>
  ELSE IF outcome = "send" THEN << Msg("user", "question", text, <<>>, <<>>, q) >>
  ELSE <<>>

\* userId: fixed when the component mounts (line 45).
UserId == "user_1"

\* A faulty request: the query is not scoped to the selection.
QueryRequestNoScope(text, sel) ==
  [ user_id |-> UserId, query |-> text, doc_ids |-> <<>>, top_k |-> TopK,
    st |-> "pending", resp |-> "none" ]

\* The body of POST /query (lines 158-163); st is the state of the request
\* and resp the kind of response it got.
QueryRequest(text, sel) ==
  [ user_id |-> UserId, query |-> text, doc_ids |-> sel, top_k |-> TopK,
    st |-> "pending", resp |-> "none" ]

\* sendMessage up to its return or its await (lines 122-163).
sendMessage ==
  /\ asked' = asked + 1
  /\ LET outcome == AskOutcome(inputMessage, uploadedDocuments, selectedDocuments)
         q == Len(queries) + 1
     IN  /\ messages' = messages \o AskEntry(outcome, inputMessage, q)
         /\ IF outcome = "send"
              THEN /\ inputMessage' = <<>>
                   /\ isLoading' = TRUE
                   /\ queries' = Append(queries,
                                   QueryRequest(inputMessage, selectedDocuments))
              ELSE UNCHANGED << inputMessage, isLoading, queries >>
  /\ UNCHANGED << uploadedDocuments, isUploading, selectedDocuments, serverDocs,
                  batches, lists, deletes >>
  /\ lastOp' = "other"

\* What the backend can answer to a query: an answer with sources, an answer
\* without a sources field, or an error.
QueryOutcomes == { "sources", "no_sources", "error" }

\* A faulty response entry: the sources of the response are dropped.
ResponseEntryDropsSources(outcome, q) ==
  IF outcome = "error"
    THEN Msg("system", "query_error", <<>>, <<>>, <<>>, q)
    ELSE Msg("ai", "answer", <<>>, <<>>, <<>>, q)

\* The entry sendMessage appends when the response of query q arrives (lines
\* 165-179): sources defaults to the empty list.
ResponseEntry(outcome, q) ==
  IF outcome = "error"
    THEN Msg("system", "query_error", <<>>, <<>>, <<>>, q)
    ELSE Msg("ai", "answer", <<>>, <<>>,
             IF outcome = "sources" THEN << "cite" >> ELSE <<>>, q)

\* The response of query q arrives: sendMessage resumes after its await, then
\* runs its finally (line 181).
QueryRespond(q, outcome) ==
  /\ q \in DOMAIN queries
  /\ queries[q].st = "pending"
  /\ queries' = [ queries EXCEPT ![q].st = "done", ![q].resp = outcome ]
  /\ messages' = Append(messages, ResponseEntry(outcome, q))
  /\ isLoading' = FALSE
  /\ UNCHANGED << inputMessage, uploadedDocuments, isUploading,
                  selectedDocuments, serverDocs, batches, lists, deletes, asked >>
  /\ lastOp' = "other"

\* handleInputChange: setInputMessage(e.target.value)
handleInputChange(v) ==
  /\ inputMessage' = v
  /\ UNCHANGED << messages, isLoading, uploadedDocuments, isUploading,
                  selectedDocuments, serverDocs, batches, lists, queries,
                  deletes, asked >>
  /\ lastOp' = "other"

\* ---------------------------------------------------------- deleteDocument
\* deleteDocument up to its await: the DELETE request is sent (line 203).
deleteDocument ==
  /\ deletes' = Append(deletes, "sent")
  /\ UNCHANGED << client, serverDocs, batches, lists, queries, asked >>
  /\ lastOp' = "other"

\* The backend deletes every document stored under the session.
DeleteServe(d) ==
  /\ d \in DOMAIN deletes
  /\ deletes[d] = "sent"
  /\ deletes' = [ deletes EXCEPT ![d] = "served" ]
  /\ serverDocs' = {}
  /\ UNCHANGED << client, batches, lists, queries, asked >>
  /\ lastOp' = "other"

\* A faulty success path: the selection is left as it was.
DeletedSelectionKept(prev) == prev

\* setSelectedDocuments([]) after a successful delete (line 205).
DeletedSelection(prev) == <<>>

\* setUploadedDocuments([]) after a successful delete (line 204).
DeletedDocs(prev) == <<>>

\* The response of the DELETE request arrives (lines 204-210).
DeleteRespond(d) ==
  /\ d \in DOMAIN deletes
  /\ deletes[d] = "served"
  /\ deletes' = [ deletes EXCEPT ![d] = "fulfilled" ]
  /\ uploadedDocuments' = DeletedDocs(uploadedDocuments)
  /\ selectedDocuments' = DeletedSelection(selectedDocuments)
  /\ messages' = Append(messages, SystemMsg("deleted"))
  /\ UNCHANGED << inputMessage, isLoading, isUploading, serverDocs, batches,
                  lists, queries, asked >>
  /\ lastOp' = "other"

\* A faulty catch: the document list is cleared although the delete failed.
DeleteFailedDocsCleared(prev) == <<>>

\* The document list after the catch of deleteDocument (lines 211-218): the
\* catch sets no state but the transcript.
DeleteFailedDocs(prev) == prev

\* The DELETE request fails, before or after the backend served it (lines
\* 211-217).
DeleteFail(d) ==
  /\ d \in DOMAIN deletes
  /\ deletes[d] \in { "sent", "served" }
  /\ deletes' = [ deletes EXCEPT ![d] = "rejected" ]
  /\ uploadedDocuments' = DeleteFailedDocs(uploadedDocuments)
  /\ messages' = Append(messages, SystemMsg("delete_error"))
  /\ UNCHANGED << inputMessage, isLoading, isUploading,
                  selectedDocuments, serverDocs, batches, lists, queries, asked >>
  /\ lastOp' = "other"

\* --------------------------------------------------------------- selection
\* prev.includes(docId) ? prev.filter(id => id !== docId) : [...prev, docId]
Toggle(prev, docId) ==
  IF Includes(prev, docId) THEN Without(prev, docId) ELSE Append(prev, docId)

\* The identifiers a card of the document list can pass to
\* toggleDocumentSelection (lines 354, 364): docId && toggle(docId).
Clickable(docs) == { d \in Range(MapDocId(docs)) : Truthy(d) }

toggleDocumentSelection(docId) ==
  /\ docId \in Clickable(uploadedDocuments)
  /\ selectedDocuments' = Toggle(selectedDocuments, docId)
  /\ UNCHANGED << messages, inputMessage, isLoading, uploadedDocuments,
                  isUploading, serverDocs, batches, lists, queries, deletes,
                  asked >>
  /\ lastOp' = "other"

\* A faulty select-all: only the id field of a record is read.
AllDocIdsIdOnly(docs) ==
  SelectSeq([ i \in 1..Len(docs) |-> docs[i].id ], Truthy)

\* uploadedDocuments.map(doc => doc.doc_id || doc.id).filter(Boolean)
AllDocIds(docs) == SelectSeq(MapDocId(docs), Truthy)

selectAllDocuments ==
  /\ selectedDocuments' = AllDocIds(uploadedDocuments)
  /\ UNCHANGED << messages, inputMessage, isLoading, uploadedDocuments,
                  isUploading, serverDocs, batches, lists, queries, deletes,
                  asked >>
  /\ lastOp' = "selectAll"

\* A faulty deselect-all: the first selected identifier stays selected.
DeselectedKeepsFirst(prev) == IF prev = <<>> THEN <<>> ELSE << Head(prev) >>

\* setSelectedDocuments([]) (line 235)
Deselected(prev) == <<>>

deselectAllDocuments ==
  /\ selectedDocuments' = Deselected(selectedDocuments)
  /\ UNCHANGED << messages, inputMessage, isLoading, uploadedDocuments,
                  isUploading, serverDocs, batches, lists, queries, deletes,
                  asked >>
  /\ lastOp' = IF lastOp = "selectAll" THEN "selectAll,deselectAll" ELSE "other"

\* ------------------------------------------------ calls within the bounds
\* The handlers are called in any state, whether or not the control that
\* calls them is enabled; each at most as often as the bounds allow.
Drop(fs) ==
  /\ Len(batches) < MaxUploads /\ Ops < MaxOps
  /\ onDrop(fs)

Ask ==
  /\ asked < MaxAsks /\ Ops < MaxOps
  /\ sendMessage

Delete ==
  /\ Len(deletes) < MaxDeletes /\ Ops < MaxOps
  /\ deleteDocument

\* -------------------------------------------------------------------- Next
Next ==
  \/ \E fs \in Batches : Drop(fs)
  \/ \E b \in 1..MaxUploads, i \in 1..Cardinality(Files), ok \in BOOLEAN :
        UploadSettle(b, i, ok)
  \/ \E b \in 1..MaxUploads, shape \in ListShapes : TimerFire(b, shape)
  \/ \E o \in 0..MaxUploads, shape \in ListShapes : ListServe(o, shape)
  \/ \E o \in 0..MaxUploads : ListRespond(o)
  \/ \E o \in 0..MaxUploads : ListFail(o)
  \/ \E v \in Texts : handleInputChange(v)
  \/ Ask
  \/ \E q \in 1..MaxAsks, outcome \in QueryOutcomes : QueryRespond(q, outcome)
  \/ Delete
  \/ \E d \in 1..MaxDeletes : DeleteServe(d)
  \/ \E d \in 1..MaxDeletes : DeleteRespond(d)
  \/ \E d \in 1..MaxDeletes : DeleteFail(d)
  \/ \E docId \in Range(ServerOrder) : toggleDocumentSelection(docId)
  \/ selectAllDocuments
  \/ deselectAllDocuments

Spec == Init /\ [][Next]_vars

\* ------------------------------------------------------ rendered controls
\* A faulty textarea: it stays enabled while a query is loading.
TextareaDisabledIgnoresLoading(docs, loading) == Len(docs) = 0

\* disabled of the Textarea (line 512)
TextareaDisabled(docs, loading) == Len(docs) = 0 \/ loading

\* disabled of the Send button (line 518)
SendDisabled(text, docs, loading) ==
  Trim(text) = <<>> \/ Len(docs) = 0 \/ loading

\* The dropzone calls onDrop (lines 116-119); it is never disabled.
UiDrop(fs) ==
  /\ Len(batches) < UiMaxUploads /\ Ops < UiMaxOps
  /\ onDrop(fs)

\* onChange of the Textarea (line 510)
TypeText(v) ==
  /\ ~TextareaDisabled(uploadedDocuments, isLoading)
  /\ handleInputChange(v)

\* onClick of the Send button (line 517)
ClickSend ==
  /\ asked < UiMaxAsks /\ Ops < UiMaxOps
  /\ ~SendDisabled(inputMessage, uploadedDocuments, isLoading)
  /\ sendMessage

\* handleKeyPress with Enter and no Shift (lines 185-190), onKeyPress of the
\* Textarea (line 511)
PressEnter ==
  /\ asked < UiMaxAsks /\ Ops < UiMaxOps
  /\ ~TextareaDisabled(uploadedDocuments, isLoading)
  /\ sendMessage

\* onClick of the Clear All button (lines 285-289)
ClickClearAll ==
  /\ Len(deletes) < UiMaxDeletes /\ Ops < UiMaxOps
  /\ Len(uploadedDocuments) # 0
  /\ deleteDocument

\* onClick of the Select All button (lines 325-331)
ClickSelectAll ==
  /\ Len(uploadedDocuments) > 0
  /\ Len(selectedDocuments) # Len(uploadedDocuments)
  /\ selectAllDocuments

\* onClick of the Clear button (lines 325, 337-341)
ClickClear ==
  /\ Len(uploadedDocuments) > 0
  /\ Len(selectedDocuments) # 0
  /\ deselectAllDocuments

NextUI ==
  \/ \E fs \in Batches : UiDrop(fs)
  \/ \E b \in 1..UiMaxUploads, i \in 1..Cardinality(Files), ok \in BOOLEAN :
        UploadSettle(b, i, ok)
  \/ \E b \in 1..UiMaxUploads, shape \in ListShapes : TimerFire(b, shape)
  \/ \E o \in 0..UiMaxUploads, shape \in ListShapes : ListServe(o, shape)
  \/ \E o \in 0..UiMaxUploads : ListRespond(o)
  \/ \E o \in 0..UiMaxUploads : ListFail(o)
  \/ \E v \in Texts : TypeText(v)
  \/ ClickSend
  \/ PressEnter
  \/ \E q \in 1..UiMaxAsks, outcome \in QueryOutcomes : QueryRespond(q, outcome)
  \/ ClickClearAll
  \/ \E d \in 1..UiMaxDeletes : DeleteServe(d)
  \/ \E d \in 1..UiMaxDeletes : DeleteRespond(d)
  \/ \E d \in 1..UiMaxDeletes : DeleteFail(d)
  \/ \E docId \in Range(ServerOrder) : toggleDocumentSelection(docId)
  \/ ClickSelectAll
  \/ ClickClear

SpecUI == Init /\ [][NextUI]_vars

\* Every request the component awaits settles (the HTTP client resolves or
\* rejects its promise), and a timer that was set fires: setTimeout is never
\* cleared (line 103).
Fairness ==
  /\ WF_vars(\E q \in 1..MaxAsks, outcome \in QueryOutcomes : QueryRespond(q, outcome))
  /\ WF_vars(\E b \in 1..MaxUploads, shape \in ListShapes : TimerFire(b, shape))

FairSpec == Spec /\ Fairness

\* ================================================================== claims
\* The identifiers of the documents of a list.
ListIds(docs) == Range(MapDocId(docs))

\* doc.filename || doc.name (line 371): the file a record stands for.
DocName(doc) == IF Truthy(doc.filename) THEN doc.filename ELSE doc.name

\* A sendMessage step: the call counter moves.
AskStep == asked' # asked

\* Batch b leaves onDrop's await in this step with the given phase (an empty
\* batch does so in the step that creates it).
Becomes(b, phase) ==
  /\ b \in DOMAIN batches'
  /\ batches'[b].phase = phase
  /\ (b \notin DOMAIN batches \/ batches[b].phase = "pending")

\* s is t with exactly the entries of tail appended.
Extends(s, t, tail) == s = t \o tail

\* ---- C1: every identifier of the selection is the identifier of a document
\* of the document list, in every reachable state.
C1_SelectionListed == Range(selectedDocuments) \subseteq ListIds(uploadedDocuments)

\* ---- C2 as stated: from the moment a batch's upload requests are submitted
\* (and until a delete-all has succeeded), the list holds a record for every
\* file of the batch.
C2_RecordFromSubmission ==
  (\A i \in DOMAIN messages : messages[i].kind # "deleted")
    => \A b \in DOMAIN batches : \A i \in DOMAIN batches[b].files :
         \E k \in DOMAIN uploadedDocuments :
           DocName(uploadedDocuments[k]) = batches[b].files[i]

\* ---- C2 as amended: in the step in which the last upload response of a
\* batch is handled and every request has succeeded, the list gains a record
\* with status "processing" for every file of the batch; a step of onDrop that
\* leaves the batch pending or failed adds no record.
C2_RecordFromJoin ==
  [][ \A b \in DOMAIN batches' :
        /\ Becomes(b, "done") =>
             \A i \in DOMAIN batches'[b].files :
               \E k \in (Len(uploadedDocuments) + 1)..Len(uploadedDocuments') :
                 /\ uploadedDocuments'[k].name = batches'[b].files[i]
                 /\ uploadedDocuments'[k].status = "processing"
        /\ ( /\ batches'[b].phase # "done"
             /\ (b \notin DOMAIN batches \/ batches'[b] # batches[b]) )
             => uploadedDocuments' = uploadedDocuments ]_vars

\* A batch of two files has been joined and both of its records are listed
\* while the backend's listing has not yet replaced them.
C2_Witness ==
  \E b \in DOMAIN batches :
    /\ batches[b].phase = "done"
    /\ Len(batches[b].files) = 2
    /\ \A i \in 1..2 : \E k \in DOMAIN uploadedDocuments :
         /\ uploadedDocuments[k].name = batches[b].files[i]
         /\ uploadedDocuments[k].status = "processing"

\* The identifiers of the files of batch b.
BatchIds(b) == { ServerId(batches[b].files[i]) : i \in DOMAIN batches[b].files }

\* ---- C3: when the response of the refresh scheduled by an earlier,
\* non-empty batch lands, the records a newer, completed batch has in the list are still in
\* the list afterwards.
C3_NoLostUpdate ==
  [][ \A o \in DOMAIN batches : \A b \in DOMAIN batches :
        ( /\ o < b /\ batches[o].files # <<>>
          /\ lists[o].st = "answered" /\ lists'[o].st = "done"
          /\ batches[b].phase = "done"
          /\ BatchIds(b) \subseteq ListIds(uploadedDocuments) )
        => BatchIds(b) \subseteq ListIds(uploadedDocuments') ]_vars

C8_OneRecordPerFile ==
  [][ \A b \in DOMAIN batches' :
        (Becomes(b, "done") /\ batches'[b].files # <<>>) =>
          LET fs == batches'[b].files
              n  == Len(uploadedDocuments)
              m  == Len(messages)
          IN  /\ Len(uploadedDocuments') = n + Len(fs)
              /\ SubSeq(uploadedDocuments', 1, n) = uploadedDocuments
              /\ \A i \in DOMAIN fs :
                   /\ uploadedDocuments'[n + i].name = fs[i]
                   /\ uploadedDocuments'[n + i].id = ServerId(fs[i])
                   /\ uploadedDocuments'[n + i].status = "processing"
              /\ Len(messages') = m + 1
              /\ SubSeq(messages', 1, m) = messages
              /\ messages'[m + 1].type = "system"
              /\ messages'[m + 1].kind = "uploaded"
              /\ messages'[m + 1].files = fs ]_vars

\* A batch of two files was joined and its one entry names both files.
C8_Witness ==
  /\ \E b \in DOMAIN batches :
       batches[b].phase = "done" /\ Len(batches[b].files) = 2
  /\ \E i \in DOMAIN messages :
       messages[i].kind = "uploaded" /\ Len(messages[i].files) = 2

\* ---- C9: a batch with a failed request is failed; the step that fails it
\* leaves the document list and the selection unchanged and appends exactly
\* one system error entry; the later responses of a failed batch change
\* nothing on the client.
C9_FailedBatchAddsNothing ==
  [][ \A b \in DOMAIN batches' :
        /\ (\E i \in DOMAIN batches'[b].reqs : batches'[b].reqs[i] = "failed")
             => batches'[b].phase = "failed"
        /\ Becomes(b, "failed") =>
             /\ uploadedDocuments' = uploadedDocuments
             /\ selectedDocuments' = selectedDocuments
             /\ Extends(messages', messages, << SystemMsg("upload_error") >>)
        /\ ( /\ b \in DOMAIN batches
             /\ batches[b].phase = "failed"
             /\ batches'[b] # batches[b] )
             => client' = client ]_vars

\* A batch failed although the request of one of its files succeeded.
C9_Witness ==
  \E b \in DOMAIN batches :
    /\ batches[b].phase = "failed"
    /\ \E i \in DOMAIN batches[b].reqs : batches[b].reqs[i] = "ok"
    /\ \E i \in DOMAIN messages : messages[i].kind = "upload_error"

\* ---- C10: the outcome of a batch is applied only when none of its upload
\* requests is pending any more.
C10_JoinedOnAllRequests ==
  \A b \in DOMAIN batches :
    batches[b].phase # "pending"
      => \A i \in DOMAIN batches[b].reqs : batches[b].reqs[i] # "pending"

\* Delete request d settles in this step with the given outcome.
DeleteSettles(d, outcome) ==
  /\ d \in DOMAIN deletes
  /\ deletes[d] \in { "sent", "served" }
  /\ deletes'[d] = outcome

\* ---- C11: the step in which a delete-all request succeeds leaves the
\* document list and the selection empty and appends exactly one confirming
\* system entry.
C11_DeleteClearsAll ==
  [][ \A d \in DOMAIN deletes :
        DeleteSettles(d, "fulfilled") =>
          /\ uploadedDocuments' = <<>>
          /\ selectedDocuments' = <<>>
          /\ Extends(messages', messages, << SystemMsg("deleted") >>) ]_vars

\* A delete-all succeeded after a batch had put records into the list; the
\* list and the selection are empty.
C11_Witness ==
  /\ \E d \in DOMAIN deletes : deletes[d] = "fulfilled"
  /\ \E i \in DOMAIN messages : \E j \in DOMAIN messages :
       /\ i < j
       /\ messages[i].kind = "uploaded" /\ messages[i].files # <<>>
       /\ messages[j].kind = "deleted"
  /\ uploadedDocuments = <<>> /\ selectedDocuments = <<>>

\* ---- C12: the step in which a delete-all request fails leaves the document
\* list and the selection unchanged and appends exactly one system error
\* entry.
C12_DeleteFailureKeepsState ==
  [][ \A d \in DOMAIN deletes :
        DeleteSettles(d, "rejected") =>
          /\ uploadedDocuments' = uploadedDocuments
          /\ selectedDocuments' = selectedDocuments
          /\ Extends(messages', messages, << SystemMsg("delete_error") >>) ]_vars

\* A delete-all failed while documents were listed and selected.
C12_Witness ==
  /\ \E d \in DOMAIN deletes : deletes[d] = "rejected"
  /\ uploadedDocuments # <<>> /\ selectedDocuments # <<>>
  /\ messages # <<>> /\ messages[Len(messages)].kind = "delete_error"

\* ---- C13: the step in which a listing request succeeds makes the document
\* list exactly the listing the backend returned (nothing of the old list is
\* kept); the step in which one fails leaves the list as it was; neither
\* appends to the transcript.
C13_ListOverwrites ==
  [][ \A o \in DOMAIN lists :
        /\ (lists[o].st = "answered" /\ lists'[o].st = "done") =>
             /\ uploadedDocuments' = lists[o].docs
             /\ messages' = messages
        /\ (lists[o].st \in { "sent", "answered" } /\ lists'[o].st = "failed") =>
             /\ uploadedDocuments' = uploadedDocuments
             /\ messages' = messages ]_vars

\* The mount listing succeeded and the refresh of a batch failed; the records
\* the batch had appended are gone although nothing was deleted, so the
\* listing replaced them.
C13_Witness ==
  /\ lists[0].st = "done"
  /\ \E b \in DOMAIN batches :
       /\ batches[b].phase = "done" /\ batches[b].files # <<>>
       /\ lists[b].st = "failed"
  /\ deletes = <<>>
  /\ uploadedDocuments = <<>>

\* s is a prefix of t.
IsPrefix(s, t) == Len(s) <= Len(t) /\ SubSeq(t, 1, Len(s)) = s

\* ---- C14: the transcript is append-only: in every step of every operation
\* and callback the transcript before the step is a prefix of the transcript
\* after it.
C14_TranscriptAppendOnly == [][ IsPrefix(messages, messages') ]_vars

\* A transcript of three entries written by an upload and an ask: a system
\* entry, a user entry and the entry of the response.
C14_Witness ==
  /\ Len(messages) >= 3
  /\ \E i \in DOMAIN messages : messages[i].kind = "uploaded"
  /\ \E i \in DOMAIN messages : messages[i].type = "user"
  /\ messages[Len(messages)].type = "ai"

\* ---- C16: every query request carries the session identifier, the text of
\* the input box at submission, which is not blank, a non-empty doc_ids list
\* equal to the selection at submission, and top_k = 5; a request that was
\* sent keeps its body.
C16_QueryBody ==
  [][ /\ Len(queries') \in { Len(queries), Len(queries) + 1 }
      /\ \A q \in DOMAIN queries :
           /\ queries'[q].user_id = queries[q].user_id
           /\ queries'[q].query = queries[q].query
           /\ queries'[q].doc_ids = queries[q].doc_ids
           /\ queries'[q].top_k = queries[q].top_k
      /\ Len(queries') = Len(queries) + 1 =>
           LET r == queries'[Len(queries')]
           IN  /\ r.user_id = UserId
               /\ r.query = inputMessage
               /\ Trim(r.query) # <<>>
               /\ r.doc_ids = selectedDocuments
               /\ r.doc_ids # <<>>
               /\ r.top_k = 5 ]_vars

\* A query was sent with a selection; its text has surrounding whitespace, so
\* the text sent is the text typed, not the trimmed text.
C16_Witness ==
  \E q \in DOMAIN queries :
    /\ queries[q].doc_ids # <<>>
    /\ queries[q].query # Trim(queries[q].query)
    /\ Trim(queries[q].query) # <<>>

\* The entries of the transcript that answer query q.
ResponseEntries(q) ==
  { i \in DOMAIN messages : messages[i].q = q /\ messages[i].type # "user" }

\* ---- C18: the step in which a query settles appends exactly one entry for
\* it, an ai entry with the response's sources (the empty list when the
\* response has none) on success and a system error entry on failure, and
\* resets isLoading; a query never has more than one such entry; every query
\* issued settles.
C18_QuerySettles ==
  /\ [][ \A q \in DOMAIN queries :
            (queries[q].st = "pending" /\ queries'[q].st = "done") =>
              /\ isLoading' = FALSE
              /\ \E e \in { messages'[Len(messages')] } :
                   /\ messages' = Append(messages, e)
                   /\ e.q = q
                   /\ queries'[q].resp = "error" =>
                        e.type = "system" /\ e.kind = "query_error"
                   /\ queries'[q].resp = "sources" =>
                        e.type = "ai" /\ e.kind = "answer" /\ e.sources = << "cite" >>
                   /\ queries'[q].resp = "no_sources" =>
                        e.type = "ai" /\ e.kind = "answer" /\ e.sources = <<>> ]_vars
  /\ [](\A q \in DOMAIN queries :
          Cardinality(ResponseEntries(q)) = IF queries[q].st = "done" THEN 1 ELSE 0)
  /\ \A q \in 1..MaxAsks :
       (q \in DOMAIN queries /\ queries[q].st = "pending")
         ~> ( /\ q \in DOMAIN queries
              /\ queries[q].st = "done"
              /\ Cardinality(ResponseEntries(q)) = 1 )

\* A query was answered without a sources field: its ai entry has the empty
\* list as sources and isLoading is false again.
C18_Witness ==
  \E q \in DOMAIN queries :
    /\ queries[q].st = "done" /\ queries[q].resp = "no_sources"
    /\ \E i \in ResponseEntries(q) :
         messages[i].type = "ai" /\ messages[i].sources = <<>>
    /\ ~isLoading

\* ---- C19: a batch has set exactly one refresh timer once it has succeeded
\* and none while it is pending or after it failed; a timer that was set is
\* never taken back; the refresh of every successful batch is eventually
\* issued, exactly once.
C19_OneRefreshPerBatch ==
  /\ [](\A b \in DOMAIN batches :
          /\ batches[b].scheduled = IF batches[b].phase = "done" THEN 1 ELSE 0
          /\ batches[b].fired <= batches[b].scheduled
          /\ batches[b].fired = 0 => lists[b].st = "idle")
  /\ [][ \A b \in DOMAIN batches :
            /\ batches'[b].scheduled >= batches[b].scheduled
            /\ batches'[b].fired >= batches[b].fired ]_vars
  /\ \A b \in 1..MaxUploads :
       (b \in DOMAIN batches /\ batches[b].phase = "done")
         ~> ( /\ b \in DOMAIN batches
              /\ batches[b].fired = 1
              /\ lists[b].st # "idle" )

\* One batch succeeded and its refresh was issued; another batch failed and
\* has set no timer.
C19_Witness ==
  /\ \E b \in DOMAIN batches :
       /\ batches[b].phase = "done" /\ batches[b].files # <<>>
       /\ batches[b].fired = 1 /\ lists[b].st # "idle"
  /\ \E b \in DOMAIN batches :
       /\ batches[b].phase = "failed"
       /\ batches[b].scheduled = 0 /\ lists[b].st = "idle"

\* ---- C17: a deselect-all step that directly follows a select-all step ends
\* with the empty selection, which is the selection of the initial state;
\* neither of the two steps changes the document list.
C17_SelectAllThenDeselectAll ==
  [][ /\ (lastOp = "selectAll" /\ lastOp' = "selectAll,deselectAll") =>
           /\ selectedDocuments' = <<>>
           /\ uploadedDocuments' = uploadedDocuments
      /\ lastOp' = "selectAll" => uploadedDocuments' = uploadedDocuments ]_vars

\* Select-all and then deselect-all ran last; documents are listed and the
\* selection is empty.
C17_Witness ==
  /\ lastOp = "selectAll,deselectAll"
  /\ uploadedDocuments # <<>>
  /\ selectedDocuments = <<>>

\* doc.doc_id || doc.id of the records that have one of the two.
IdsOfListed(docs) ==
  { IF docs[i].doc_id \notin { Undef, "" } THEN docs[i].doc_id ELSE docs[i].id :
      i \in { j \in DOMAIN docs : docs[j].doc_id \notin { Undef, "" }
                                    \/ docs[j].id \notin { Undef, "" } } }

\* ---- C20: in the state a select-all step leaves, the set of selected
\* identifiers is exactly the set of identifiers of the listed documents
\* (doc_id, else id; a record with neither adds nothing), whatever was
\* selected before.
C20_SelectAllSelectsListed ==
  lastOp = "selectAll" =>
    { selectedDocuments[i] : i \in DOMAIN selectedDocuments } =
      IdsOfListed(uploadedDocuments)

\* Select-all ran last on a list that holds a record with neither identifier
\* and a record identified by id only: one identifier is selected.
C20_Witness ==
  /\ lastOp = "selectAll"
  /\ \E i \in DOMAIN uploadedDocuments :
       uploadedDocuments[i].doc_id = Undef /\ uploadedDocuments[i].id = Undef
  /\ \E i \in DOMAIN uploadedDocuments :
       uploadedDocuments[i].doc_id = Undef /\ uploadedDocuments[i].id # Undef
  /\ Len(selectedDocuments) = 1

\* The query requests in flight.
PendingQueries == { q \in DOMAIN queries : queries[q].st = "pending" }

\* ---- C15: when the handlers are called through the rendered controls, at
\* most one query request is in flight, and while one is, isLoading is true
\* and the Send button and the Textarea are disabled.
C15_OneQueryInFlight ==
  /\ Cardinality(PendingQueries) <= 1
  /\ PendingQueries # {} =>
       /\ isLoading
       /\ SendDisabled(inputMessage, uploadedDocuments, isLoading)
       /\ TextareaDisabled(uploadedDocuments, isLoading)

\* A second query is in flight after the first one has settled.
C15_Witness ==
  /\ Len(queries) = 2
  /\ queries[1].st = "done"
  /\ queries[2].st = "pending"
  /\ isLoading

\* ---- C21: once a delete-all has succeeded, the document list is empty for
\* as long as no upload batch that was submitted after the last successful
\* delete has succeeded.
C21_EmptyUntilLaterUpload ==
  ( /\ FulfilledDeletes > 0
    /\ ~ \E b \in DOMAIN batches :
           batches[b].dels = FulfilledDeletes /\ batches[b].phase = "done" )
    => uploadedDocuments = <<>>

\* Some upload request of some batch has not settled.
UploadPending ==
  \E b \in DOMAIN batches :
    \E i \in DOMAIN batches[b].reqs : batches[b].reqs[i] = "pending"

\* ---- C22: isUploading is true exactly when at least one upload request is
\* pending, whatever batch the request belongs to.
C22_UploadingIffPending == isUploading <=> UploadPending

====
